---- MODULE Spec2Model ----
(***************************************************************************)
(* A model of the heads-up poker bot: the card and deck primitives and the *)
(* hand evaluator of cards.py, and the Monte Carlo decision loop of        *)
(* poker_bot.py.                                                           *)
(***************************************************************************)
EXTENDS Integers, Sequences, FiniteSets, TLC

(***************************************************************************)
(* cards.py: Suit, Rank, HandRank                                          *)
(***************************************************************************)
HEARTS == 0
DIAMONDS == 1
CLUBS == 2
SPADES == 3

TWO == 2
THREE == 3
FOUR == 4
FIVE == 5
ACE == 14

HIGH_CARD == 0
PAIR == 1
TWO_PAIR == 2
THREE_OF_A_KIND == 3
STRAIGHT == 4
FLUSH == 5
FULL_HOUSE == 6
FOUR_OF_A_KIND == 7
STRAIGHT_FLUSH == 8
ROYAL_FLUSH == 9

\* Python's None, where the code returns or holds it in place of a rank or suit.
None == -1

Suit == HEARTS..SPADES
Rank == TWO..ACE

Card(rank, suit) == [rank |-> rank, suit |-> suit]

(***************************************************************************)
(* Sequence helpers standing for Python's list and sorted().               *)
(***************************************************************************)
Range(s) == {s[i] : i \in DOMAIN s}

Reverse(s) == [i \in 1..Len(s) |-> s[Len(s) + 1 - i]]

\* Take with the slice one element too long.
TakeOneMore(s, n) == SubSeq(s, 1, IF n + 1 < Len(s) THEN n + 1 ELSE Len(s))

Take(s, n) == SubSeq(s, 1, IF n < Len(s) THEN n ELSE Len(s))

MaxOf(S) == CHOOSE x \in S : \A y \in S : y <= x

MinOf(S) == CHOOSE x \in S : \A y \in S : x <= y

RECURSIVE SortedAsc(_)
SortedAsc(S) == IF S = {} THEN <<>> ELSE <<MinOf(S)>> \o SortedAsc(S \ {MinOf(S)})

RECURSIVE SortedDesc(_)
SortedDesc(S) == IF S = {} THEN <<>> ELSE <<MaxOf(S)>> \o SortedDesc(S \ {MaxOf(S)})

\* sorted(list, reverse=True) of a list of rank values that may repeat.
RECURSIVE SortSeqDesc(_)
SortSeqDesc(s) ==
    IF s = <<>> THEN <<>>
    ELSE LET m == MaxOf(Range(s))
             i == CHOOSE j \in DOMAIN s : s[j] = m /\ \A k \in 1..(j - 1) : s[k] # m
         IN  <<m>> \o SortSeqDesc(SubSeq(s, 1, i - 1) \o SubSeq(s, i + 1, Len(s)))

\* The keys of a dict filled by one pass over s, in insertion order.
RECURSIVE FirstSeen(_)
FirstSeen(s) ==
    IF s = <<>> THEN <<>>
    ELSE LET front == FirstSeen(SubSeq(s, 1, Len(s) - 1))
             x == s[Len(s)]
         IN  IF x \in Range(front) THEN front ELSE Append(front, x)

RanksOf(cards) == [i \in DOMAIN cards |-> cards[i].rank]

(***************************************************************************)
(* cards.py: Deck                                                          *)
(***************************************************************************)
\* Deck.reset: for suit in Suit: for rank in Rank: append(Card(rank, suit)).
reset == [i \in 1..(Cardinality(Suit) * Cardinality(Rank)) |->
            Card(TWO + ((i - 1) % Cardinality(Rank)), (i - 1) \div Cardinality(Rank))]

\* Deck.shuffle: random.shuffle produces some permutation of the list.  The
\* permutations considered are those read off the multiplicative walk
\* k -> (k * seed) mod 53 over the positions of the list.
shuffle(cards, seed) ==
    LET walk == [k \in 1..52 |-> (k * seed) % 53]
        perm == SelectSeq(walk, LAMBDA p : p <= Len(cards))
    IN  [j \in 1..Len(cards) |-> cards[perm[j]]]

\* Deck.draw_multiple: count times cards.pop(); the drawn list and what is left.
draw_multiple(cards, count) ==
    [drawn |-> [i \in 1..count |-> cards[Len(cards) + 1 - i]],
     rest  |-> SubSeq(cards, 1, Len(cards) - count)]

\* create_deck_without_cards with the exclusion left out.
create_deck_keeping_cards(excluded_cards) == reset

create_deck_without_cards(excluded_cards) ==
    SelectSeq(reset, LAMBDA card : card \notin Range(excluded_cards))

(***************************************************************************)
(* cards.py: HandEvaluator                                                 *)
(***************************************************************************)
get_rank_counts(cards) ==
    [keys  |-> FirstSeen(RanksOf(cards)),
     count |-> [r \in {cards[i].rank : i \in DOMAIN cards} |->
                  Cardinality({i \in DOMAIN cards : cards[i].rank = r})]]

get_suit_counts(cards) ==
    [keys  |-> FirstSeen([i \in DOMAIN cards |-> cards[i].suit]),
     count |-> [s \in {cards[i].suit : i \in DOMAIN cards} |->
                  Cardinality({i \in DOMAIN cards : cards[i].suit = s})]]

has_flush(cards) ==
    LET suit_counts == get_suit_counts(cards)
        hits == SelectSeq(suit_counts.keys, LAMBDA s : suit_counts.count[s] >= 5)
    IN  IF hits # <<>> THEN [found |-> TRUE, suit |-> hits[1]]
        ELSE [found |-> FALSE, suit |-> None]

\* The scan of has_straight over unique_ranks[i..], carrying consecutive_count
\* and straight_high_card.
RECURSIVE StraightScan(_, _, _, _)
StraightScan(unique_ranks, i, consecutive_count, straight_high_card) ==
    IF i > Len(unique_ranks) THEN straight_high_card
    ELSE IF unique_ranks[i] = unique_ranks[i - 1] + 1
         THEN StraightScan(unique_ranks, i + 1, consecutive_count + 1,
                           IF consecutive_count + 1 >= 5 THEN unique_ranks[i]
                           ELSE straight_high_card)
         ELSE IF unique_ranks[i] > unique_ranks[i - 1] + 1
              THEN StraightScan(unique_ranks, i + 1, 1, straight_high_card)
              ELSE StraightScan(unique_ranks, i + 1, consecutive_count, straight_high_card)

has_straight(ranks) ==
    LET unique_ranks == SortedAsc(Range(ranks))
    IN  IF Len(unique_ranks) < 5 THEN [found |-> FALSE, high |-> None]
        ELSE IF {ACE, TWO, THREE, FOUR, FIVE} \subseteq Range(unique_ranks)
             THEN [found |-> TRUE, high |-> FIVE]
             ELSE LET h == StraightScan(unique_ranks, 2, 1, None)
                  IN  [found |-> h # None, high |-> h]

\* The full-house loop of evaluate_hand over rank_counts.items(), from key i on.
RECURSIVE TripleScan(_, _, _, _)
TripleScan(rank_counts, i, three_of_a_kind, pairs) ==
    IF i > Len(rank_counts.keys) THEN [three_of_a_kind |-> three_of_a_kind, pairs |-> pairs]
    ELSE LET rank == rank_counts.keys[i]
             count == rank_counts.count[rank]
         IN  IF count = 3
             THEN IF three_of_a_kind = None \/ rank > three_of_a_kind
                  THEN TripleScan(rank_counts, i + 1, rank,
                                  IF three_of_a_kind # None
                                  THEN Append(pairs, three_of_a_kind) ELSE pairs)
                  ELSE TripleScan(rank_counts, i + 1, three_of_a_kind, pairs)
             ELSE IF count = 2
                  THEN TripleScan(rank_counts, i + 1, three_of_a_kind, Append(pairs, rank))
                  ELSE TripleScan(rank_counts, i + 1, three_of_a_kind, pairs)

\* sorted([r for r in rank_counts if <r is not excluded>], reverse=True)
Kickers(rank_counts, excluded) == SortedDesc(Range(rank_counts.keys) \ excluded)

Result(rank, tiebreakers) == [rank |-> rank, tiebreakers |-> tiebreakers]

evaluate_hand(player_cards, community_cards) ==
    LET all_cards == player_cards \o community_cards
        flush == has_flush(all_cards)
        all_ranks == RanksOf(all_cards)
        straight == has_straight(all_ranks)
        flush_cards == SelectSeq(all_cards, LAMBDA card : card.suit = flush.suit)
        straight_flush == has_straight(RanksOf(flush_cards))
        rank_counts == get_rank_counts(all_cards)
        fours == SelectSeq(rank_counts.keys, LAMBDA r : rank_counts.count[r] = 4)
        scan == TripleScan(rank_counts, 1, None, <<>>)
        three_of_a_kind == scan.three_of_a_kind
        pairs == SortSeqDesc(scan.pairs)
    IN  IF flush.found /\ straight.found /\ straight_flush.found
        THEN IF straight_flush.high = ACE
             THEN Result(ROYAL_FLUSH, <<straight_flush.high>>)
             ELSE Result(STRAIGHT_FLUSH, <<straight_flush.high>>)
        ELSE IF fours # <<>>
        THEN Result(FOUR_OF_A_KIND,
                    <<fours[1]>> \o Take(Kickers(rank_counts, {fours[1]}), 1))
        ELSE IF three_of_a_kind # None /\ scan.pairs # <<>>
        THEN Result(FULL_HOUSE, <<three_of_a_kind, pairs[1]>>)
        ELSE IF flush.found
        THEN Result(FLUSH, Take(SortSeqDesc(RanksOf(flush_cards)), 5))
        ELSE IF straight.found
        THEN Result(STRAIGHT, <<straight.high>>)
        ELSE IF three_of_a_kind # None
        THEN Result(THREE_OF_A_KIND,
                    <<three_of_a_kind>> \o Take(Kickers(rank_counts, {three_of_a_kind}), 2))
        ELSE IF Len(scan.pairs) >= 2
        THEN Result(TWO_PAIR,
                    Take(pairs, 2) \o Take(Kickers(rank_counts, Range(Take(pairs, 2))), 1))
        ELSE IF scan.pairs # <<>>
        THEN Result(PAIR, <<scan.pairs[1]>> \o Take(Kickers(rank_counts, {scan.pairs[1]}), 3))
        ELSE Result(HIGH_CARD, Take(SortSeqDesc(all_ranks), 5))

\* The zip loop with >= where the code has >.
RECURSIVE CompareTiebreakersGe(_, _, _)
CompareTiebreakersGe(tiebreakers1, tiebreakers2, i) ==
    IF i > Len(tiebreakers1) \/ i > Len(tiebreakers2) THEN 0
    ELSE IF tiebreakers1[i] >= tiebreakers2[i] THEN 1
    ELSE IF tiebreakers1[i] < tiebreakers2[i] THEN 2
    ELSE CompareTiebreakersGe(tiebreakers1, tiebreakers2, i + 1)

\* The zip loop of compare_hands from position i on.
RECURSIVE CompareTiebreakers(_, _, _)
CompareTiebreakers(tiebreakers1, tiebreakers2, i) ==
    IF i > Len(tiebreakers1) \/ i > Len(tiebreakers2) THEN 0
    ELSE IF tiebreakers1[i] > tiebreakers2[i] THEN 1
    ELSE IF tiebreakers1[i] < tiebreakers2[i] THEN 2
    ELSE CompareTiebreakers(tiebreakers1, tiebreakers2, i + 1)

compare_hands(player_cards1, player_cards2, community_cards) ==
    LET hand1 == evaluate_hand(player_cards1, community_cards)
        hand2 == evaluate_hand(player_cards2, community_cards)
    IN  IF hand1.rank > hand2.rank THEN 1
        ELSE IF hand1.rank < hand2.rank THEN 2
        ELSE CompareTiebreakers(hand1.tiebreakers, hand2.tiebreakers, 1)

\* What a call of evaluate_hand gives its caller.  The body holds no raise and
\* no operation that fails on a list of cards, whatever its length.
call_evaluate_hand(player_cards, community_cards) ==
    [outcome |-> "returned", value |-> evaluate_hand(player_cards, community_cards)]

\* What a call of compare_hands gives its caller.
call_compare_hands(player_cards1, player_cards2, community_cards) ==
    [outcome |-> "returned",
     value |-> compare_hands(player_cards1, player_cards2, community_cards)]

(***************************************************************************)
(* State.                                                                  *)
(***************************************************************************)
VARIABLES
    hole,        \* evaluate_hand / compare_hands: the first player's hole cards
    hole2,       \* compare_hands: the second player's hole cards
    board,       \* evaluate_hand / compare_hands: the community cards
    evaluated,   \* what evaluate_hand(hole, board) gave, once called
    verdict,     \* what compare_hands(hole, hole2, board) gave, once called
    time_limit,       \* PokerBot.time_limit, in clock ticks
    pc,               \* "idle", "deciding", "decided", "estimating" or "estimated"
    my_hole_cards,    \* make_decision / estimate_win_probability: the caller's list
    known_community,  \* make_decision / estimate_win_probability: the caller's list
    nodes,            \* the MCTSNode objects made by make_decision; the root is nodes[1]
    simulations,      \* make_decision: the local counter of the loop
    elapsed,          \* make_decision: time.time() - start_time at the last reading
    num_simulations,  \* estimate_win_probability: the trial count asked for
    iterations,       \* estimate_win_probability: passes of the for loop made
    wins,             \* estimate_win_probability: the local counter
    trial,            \* the locals of the last trial run
    returned          \* what the call gave its caller

evalVars == <<hole, hole2, board, evaluated, verdict>>

botVars == <<time_limit, pc, my_hole_cards, known_community, nodes, simulations, elapsed,
             num_simulations, iterations, wins, trial, returned>>

vars == <<evalVars, botVars>>

NotCalled == [outcome |-> "not called"]

NoTrial == [seed |-> 0]

\* The bot's variables where the evaluator alone is exercised.
BotIdle ==
    /\ time_limit = 0
    /\ pc = "idle"
    /\ my_hole_cards = <<>>
    /\ known_community = <<>>
    /\ nodes = <<>>
    /\ simulations = 0
    /\ elapsed = 0
    /\ num_simulations = 0
    /\ iterations = 0
    /\ wins = 0
    /\ trial = NoTrial
    /\ returned = NotCalled

(***************************************************************************)
(* The evaluator on pools of cards.  The pools are the subsets of PoolCards *)
(* of a legal size (2 hole cards and 0, 3, 4 or 5 community cards), each   *)
(* laid out in NumOrders orders: by rising rank, by falling rank, rotated. *)
(***************************************************************************)
NumOrders == 2

PoolCards ==
    << Card(2, HEARTS), Card(3, HEARTS), Card(4, HEARTS), Card(5, HEARTS),
       Card(6, HEARTS), Card(6, DIAMONDS),
       Card(10, HEARTS), Card(11, HEARTS), Card(12, HEARTS),
       Card(13, HEARTS), Card(13, DIAMONDS), Card(13, CLUBS), Card(13, SPADES),
       Card(14, HEARTS), Card(14, DIAMONDS), Card(14, CLUBS), Card(14, SPADES) >>

PoolSizes == {2, 5, 6, 7}

RECURSIVE Pick(_, _)
Pick(cards, S) ==
    IF S = {} THEN <<>> ELSE Pick(cards, S \ {MaxOf(S)}) \o <<cards[MaxOf(S)]>>

Rotate(s, n) == [i \in 1..Len(s) |-> s[((i - 1 + n) % Len(s)) + 1]]

Ordered(s, k) == IF k = 0 THEN s ELSE IF k = 1 THEN Reverse(s) ELSE Rotate(s, k - 1)

InitEval ==
    \E S \in {T \in SUBSET DOMAIN PoolCards : Cardinality(T) \in PoolSizes} :
        \E k \in 0..(NumOrders - 1) :
            LET all_cards == Ordered(Pick(PoolCards, S), k)
            IN  /\ hole = SubSeq(all_cards, 1, 2)
                /\ board = SubSeq(all_cards, 3, Len(all_cards))
                /\ hole2 = <<>>
                /\ evaluated = NotCalled
                /\ verdict = NotCalled
                /\ BotIdle

EvaluateHand ==
    /\ evaluated = NotCalled
    /\ evaluated' = call_evaluate_hand(hole, board)
    /\ UNCHANGED <<hole, hole2, board, verdict, botVars>>

NextEval == EvaluateHand

SpecEval == InitEval /\ [][NextEval]_vars

(***************************************************************************)
(* The showdown: evaluate_hand and compare_hands on two hands that share a *)
(* board.  The cards are the first ShowdownDeckSize of ShowdownCards; the  *)
(* board takes any 0 to 5 of them (1 and 2 are no board of the game) and   *)
(* each player any two of the rest, the same two included.                 *)
(***************************************************************************)
ShowdownDeckSize == 8

ShowdownCards ==
    << Card(9, HEARTS), Card(10, HEARTS), Card(11, HEARTS), Card(12, HEARTS),
       Card(13, HEARTS), Card(9, SPADES), Card(13, CLUBS), Card(8, HEARTS),
       Card(12, DIAMONDS), Card(2, CLUBS) >>

ShowdownDeck == SubSeq(ShowdownCards, 1, ShowdownDeckSize)

InitShowdown ==
    \E B \in {T \in SUBSET DOMAIN ShowdownDeck : Cardinality(T) <= 5} :
        \E H1, H2 \in {T \in SUBSET (DOMAIN ShowdownDeck \ B) : Cardinality(T) = 2} :
            /\ board = Pick(ShowdownDeck, B)
            /\ hole = Pick(ShowdownDeck, H1)
            /\ hole2 = Pick(ShowdownDeck, H2)
            /\ evaluated = NotCalled
            /\ verdict = NotCalled
            /\ BotIdle

CompareHands ==
    /\ hole2 # <<>>
    /\ verdict = NotCalled
    /\ verdict' = call_compare_hands(hole, hole2, board)
    /\ UNCHANGED <<hole, hole2, board, evaluated, botVars>>

NextShowdown == EvaluateHand \/ CompareHands

SpecShowdown == InitShowdown /\ [][NextShowdown]_vars

(***************************************************************************)
(* poker_bot.py: MCTSNode                                                  *)
(***************************************************************************)
MCTSNode(parent) == [parent |-> parent, wins |-> 0, simulations |-> 0]

\* update with the two increments swapped.
update_swapped(node, result) ==
    [node EXCEPT !.simulations = @ + result, !.wins = @ + 1]

update(node, result) ==
    [node EXCEPT !.simulations = @ + 1, !.wins = @ + result]

\* The backpropagation loop of run_simulation: update node, then its parent,
\* until the parent is None.
RECURSIVE Backpropagate(_, _, _)
Backpropagate(tree, node, win) ==
    IF node = None THEN tree
    ELSE Backpropagate([tree EXCEPT ![node] = update(tree[node], win)],
                       tree[node].parent, win)

(***************************************************************************)
(* poker_bot.py: PokerBot                                                  *)
(***************************************************************************)
\* One trial, as run_simulation and estimate_win_probability both write it:
\* the deck without the known cards, shuffled, two cards drawn for the
\* opponent, the community completed to five, the hands compared.  The field
\* community_cards is the caller's list as the trial leaves it.
RunTrial(hole_cards, community_cards, seed) ==
    LET known_cards == hole_cards \o community_cards
        deck == create_deck_without_cards(known_cards)
        first == draw_multiple(shuffle(deck, seed), 2)
        opponent_hole_cards == first.drawn
        copy == community_cards
        cards_needed == 5 - Len(copy)
        second == IF cards_needed > 0 THEN draw_multiple(first.rest, cards_needed)
                  ELSE [drawn |-> <<>>, rest |-> first.rest]
        future_community == copy \o second.drawn
    IN  [seed |-> seed,
         deck |-> deck,
         opponent_hole_cards |-> opponent_hole_cards,
         future_community |-> future_community,
         remaining_deck |-> second.rest,
         community_cards |-> community_cards,
         result |-> compare_hands(hole_cards, opponent_hole_cards, future_community)]

\* win = 1 if result == 1 else 0
WinOf(result) == IF result = 1 THEN 1 ELSE 0

\* root.wins / root.simulations if root.simulations > 0 else 0, kept as a fraction.
WinProbability(root) ==
    IF root.simulations > 0 THEN [num |-> root.wins, den |-> root.simulations]
    ELSE [num |-> 0, den |-> 1]

\* The threshold with > where the code has >=.
StayOrFoldStrict(win_probability) == 2 * win_probability.num > win_probability.den

\* win_probability >= 0.5
StayOrFold(win_probability) == 2 * win_probability.num >= win_probability.den

(***************************************************************************)
(* The bot.  A call is given a hand dealt from a shuffled full deck (two   *)
(* hole cards and 0, 3, 4 or 5 community cards) or the hand BoardPlays.    *)
(* The clock advances by 0 to MaxTick ticks between two readings, and a    *)
(* decision runs at most MaxTrials trials.                                 *)
(***************************************************************************)
MaxSeed == 3
MaxTimeLimit == 2
MaxTick == 1
MaxTrials == 3
MaxNumSimulations == 2

Seeds == 1..MaxSeed

CommunitySizes == {0, 3, 4, 5}

\* The arguments of a call: dealt off a full deck shuffled under each seed.
Dealt == [seed \in Seeds |-> draw_multiple(shuffle(reset, seed), 7).drawn]

\* A hand whose board is an ace-high straight in four suits: every showdown on
\* it is a tie.
BoardPlays ==
    [hole |-> <<Card(2, CLUBS), Card(3, DIAMONDS)>>,
     community |-> <<Card(10, HEARTS), Card(11, DIAMONDS), Card(12, CLUBS),
                     Card(13, SPADES), Card(14, HEARTS)>>]

\* The arguments a call may be given.
Hands ==
    {[hole |-> SubSeq(Dealt[seed], 1, 2), community |-> SubSeq(Dealt[seed], 3, 2 + n)] :
        seed \in Seeds, n \in CommunitySizes} \cup {BoardPlays}

Init ==
    /\ time_limit \in -1..MaxTimeLimit
    /\ pc = "idle"
    /\ my_hole_cards = <<>>
    /\ known_community = <<>>
    /\ nodes = <<>>
    /\ simulations = 0
    /\ elapsed = 0
    /\ num_simulations = 0
    /\ iterations = 0
    /\ wins = 0
    /\ trial = NoTrial
    /\ returned = NotCalled
    /\ hole = <<>>
    /\ hole2 = <<>>
    /\ board = <<>>
    /\ evaluated = NotCalled
    /\ verdict = NotCalled

\* make_decision is called: start_time is read and the root is made.
MakeDecision ==
    /\ pc \in {"idle", "decided", "estimated"}
    /\ \E hand \in Hands :
        /\ my_hole_cards' = hand.hole
        /\ known_community' = hand.community
    /\ nodes' = <<MCTSNode(None)>>
    /\ simulations' = 0
    /\ elapsed' \in 0..MaxTick
    /\ trial' = NoTrial
    /\ returned' = NotCalled
    /\ pc' = "deciding"
    /\ UNCHANGED <<time_limit, num_simulations, iterations, wins, evalVars>>

\* One pass of the while loop: the time is within the limit, run_simulation runs.
RunSimulation ==
    /\ pc = "deciding"
    /\ elapsed < time_limit
    /\ simulations < MaxTrials
    /\ \E seed \in Seeds :
        LET t == RunTrial(my_hole_cards, known_community, seed)
        IN  /\ trial' = t
            /\ known_community' = t.community_cards
            /\ nodes' = Backpropagate(nodes, 1, WinOf(t.result))
    /\ simulations' = simulations + 1
    /\ elapsed' \in elapsed..(elapsed + MaxTick)
    /\ UNCHANGED <<time_limit, pc, my_hole_cards, num_simulations, iterations, wins,
                   returned, evalVars>>

\* The loop ends: the time limit is reached; the decision is returned.
ReturnDecision ==
    /\ pc = "deciding"
    /\ ~(elapsed < time_limit)
    /\ returned' = [outcome |-> "returned", value |-> StayOrFold(WinProbability(nodes[1]))]
    /\ pc' = "decided"
    /\ UNCHANGED <<time_limit, my_hole_cards, known_community, nodes, simulations, elapsed,
                   num_simulations, iterations, wins, trial, evalVars>>

\* estimate_win_probability is called.
EstimateWinProbability ==
    /\ pc \in {"idle", "decided", "estimated"}
    /\ \E hand \in Hands :
        /\ my_hole_cards' = hand.hole
        /\ known_community' = hand.community
    /\ num_simulations' \in 0..MaxNumSimulations
    /\ iterations' = 0
    /\ wins' = 0
    /\ trial' = NoTrial
    /\ returned' = NotCalled
    /\ pc' = "estimating"
    /\ UNCHANGED <<time_limit, nodes, simulations, elapsed, evalVars>>

\* One pass of the for loop of estimate_win_probability.
EstimateTrial ==
    /\ pc = "estimating"
    /\ iterations < num_simulations
    /\ \E seed \in Seeds :
        LET t == RunTrial(my_hole_cards, known_community, seed)
        IN  /\ trial' = t
            /\ known_community' = t.community_cards
            /\ wins' = IF t.result = 1 THEN wins + 1 ELSE wins
    /\ iterations' = iterations + 1
    /\ UNCHANGED <<time_limit, pc, my_hole_cards, nodes, simulations, elapsed,
                   num_simulations, returned, evalVars>>

\* return wins / num_simulations: the division raises when num_simulations is 0.
ReturnEstimate ==
    /\ pc = "estimating"
    /\ iterations = num_simulations
    /\ returned' = IF num_simulations = 0
                   THEN [outcome |-> "ZeroDivisionError", value |-> None]
                   ELSE [outcome |-> "returned",
                         value |-> [num |-> wins, den |-> num_simulations]]
    /\ pc' = "estimated"
    /\ UNCHANGED <<time_limit, my_hole_cards, known_community, nodes, simulations, elapsed,
                   num_simulations, iterations, wins, trial, evalVars>>

Next ==
    \/ MakeDecision
    \/ RunSimulation
    \/ ReturnDecision
    \/ EstimateWinProbability
    \/ EstimateTrial
    \/ ReturnEstimate

Spec == Init /\ [][Next]_vars

(***************************************************************************)
(* The standard ranking of poker hands, against which the evaluator is     *)
(* measured.                                                               *)
(***************************************************************************)
Pool == hole \o board

HandEvaluated == evaluated.outcome = "returned"

RanksIn(S) == {c.rank : c \in S}

RankCount(S, r) == Cardinality({c \in S : c.rank = r})

\* The ranks that occur n times among the cards S, highest first.
ByCount(S, n) == SortedDesc({r \in RanksIn(S) : RankCount(S, r) = n})

Wheel == {ACE, TWO, THREE, FOUR, FIVE}

\* The high cards of the five-rank runs within the ranks R; the ace is low in
\* the wheel alone, whose high card is the five.
StraightHighs(R) ==
    {t \in Rank : t >= 6 /\ (t - 4)..t \subseteq R} \cup (IF Wheel \subseteq R THEN {FIVE} ELSE {})

\* The category and tie-break of exactly five cards.
FiveCardHand(S) ==
    LET R == RanksIn(S)
        isFlush == Cardinality({c.suit : c \in S}) = 1
        isStraight == StraightHighs(R) # {}
        high == MaxOf(StraightHighs(R))
        groups == ByCount(S, 4) \o ByCount(S, 3) \o ByCount(S, 2) \o ByCount(S, 1)
    IN  IF isFlush /\ isStraight
        THEN Result(IF high = ACE THEN ROYAL_FLUSH ELSE STRAIGHT_FLUSH, <<high>>)
        ELSE IF ByCount(S, 4) # <<>> THEN Result(FOUR_OF_A_KIND, groups)
        ELSE IF ByCount(S, 3) # <<>> /\ ByCount(S, 2) # <<>> THEN Result(FULL_HOUSE, groups)
        ELSE IF isFlush THEN Result(FLUSH, groups)
        ELSE IF isStraight THEN Result(STRAIGHT, <<high>>)
        ELSE IF ByCount(S, 3) # <<>> THEN Result(THREE_OF_A_KIND, groups)
        ELSE IF Len(ByCount(S, 2)) = 2 THEN Result(TWO_PAIR, groups)
        ELSE IF Len(ByCount(S, 2)) = 1 THEN Result(PAIR, groups)
        ELSE Result(HIGH_CARD, groups)

\* a comes before b in the lexicographic order of sequences of one length.
LexLess(a, b) ==
    \E i \in DOMAIN a : i \in DOMAIN b /\ a[i] < b[i] /\ \A j \in 1..(i - 1) : a[j] = b[j]

HandLess(g, h) ==
    g.rank < h.rank \/ (g.rank = h.rank /\ LexLess(g.tiebreakers, h.tiebreakers))

BestFiveCardHand(P) ==
    LET hands == {FiveCardHand(S) : S \in {T \in SUBSET P : Cardinality(T) = 5}}
    IN  CHOOSE h \in hands : \A g \in hands : ~HandLess(h, g)

(***************************************************************************)
(* Claims about evaluate_hand, under SpecEval.                             *)
(***************************************************************************)
\* C1: for a pool of 7 distinct cards, in any order, evaluate_hand returns the
\* best 5-card hand of the pool: the maximum, by category and then by
\* tie-break, of the standard ranking over the 5-card subsets.
C1_BestFiveCardHand ==
    (HandEvaluated /\ Len(Pool) = 7) => evaluated.value = BestFiveCardHand(Range(Pool))

\* The length of the tie-break sequence documented for each category.
Arity(category) ==
    CASE category \in {FOUR_OF_A_KIND, FULL_HOUSE} -> 2
      [] category \in {FLUSH, HIGH_CARD} -> 5
      [] category \in {STRAIGHT, STRAIGHT_FLUSH, ROYAL_FLUSH} -> 1
      [] category \in {THREE_OF_A_KIND, TWO_PAIR} -> 3
      [] category = PAIR -> 4

\* C2: for a pool of 7 distinct cards evaluate_hand returns a category in 0..9
\* and a non-empty tie-break sequence of the length documented for it.
C2_ArityOfTiebreak ==
    (HandEvaluated /\ Len(Pool) = 7) =>
        /\ evaluated.value.rank \in HIGH_CARD..ROYAL_FLUSH
        /\ evaluated.value.tiebreakers # <<>>
        /\ Len(evaluated.value.tiebreakers) = Arity(evaluated.value.rank)

\* A pool of 7 with three pairs is evaluated as Two Pair with a kicker.
C2_Witness ==
    /\ HandEvaluated
    /\ Len(Pool) = 7
    /\ Len(ByCount(Range(Pool), 2)) = 3
    /\ evaluated.value.rank = TWO_PAIR
    /\ Len(evaluated.value.tiebreakers) = 3

\* The suits of the pool P whose cards alone hold a straight.
StraightSuits(P) == {s \in Suit : StraightHighs(RanksIn({c \in P : c.suit = s})) # {}}

\* The ranks that can be the triple of a full house, and those that can be the
\* pair of one under the triple t.
Triples(P) == {r \in RanksIn(P) : RankCount(P, r) = 3}

PairsUnder(P, t) == {r \in RanksIn(P) \ {t} : RankCount(P, r) \in {2, 3}}

\* C4: a pool of 6 or 7 cards with no straight flush and no four of a kind,
\* holding a rank three times and another rank two or three times, is a Full
\* House of the highest triple over the highest other pair or triple, in
\* whatever order the cards come.
C4_FullHouse ==
    LET P == Range(Pool)
        t == MaxOf(Triples(P))
    IN  ( /\ HandEvaluated
          /\ Len(Pool) \in {6, 7}
          /\ StraightSuits(P) = {}
          /\ \A r \in RanksIn(P) : RankCount(P, r) # 4
          /\ Triples(P) # {}
          /\ PairsUnder(P, t) # {} )
        => evaluated.value = Result(FULL_HOUSE, <<t, MaxOf(PairsUnder(P, t))>>)

\* C8: for a pool of 6 or 7 cards evaluate_hand returns Straight Flush or Royal
\* Flush exactly when the cards of one suit hold a straight; the tie-break is
\* then the high card of the straight among that suit's cards, and the
\* category is Royal Flush exactly when that high card is the ace.
C8_StraightFlush ==
    LET P == Range(Pool)
    IN  (HandEvaluated /\ Len(Pool) \in {6, 7}) =>
            /\ evaluated.value.rank \in {STRAIGHT_FLUSH, ROYAL_FLUSH} <=> StraightSuits(P) # {}
            /\ \A s \in StraightSuits(P) :
                 LET high == MaxOf(StraightHighs(RanksIn({c \in P : c.suit = s})))
                 IN  /\ evaluated.value.tiebreakers = <<high>>
                     /\ evaluated.value.rank = ROYAL_FLUSH <=> high = ACE

(***************************************************************************)
(* Claims about the showdown, under SpecShowdown.                          *)
(***************************************************************************)
\* C3: compare_hands is antisymmetric: it gives 1 for (A, B, C) exactly when it
\* gives 2 for (B, A, C), 0 exactly when it gives 0 for (B, A, C), and 0 for
\* (A, A, C).
C3_Antisymmetric ==
    verdict.outcome = "returned" =>
        LET swapped == call_compare_hands(hole2, hole, board)
            same == call_compare_hands(hole, hole, board)
        IN  /\ swapped.outcome = "returned" /\ same.outcome = "returned"
            /\ verdict.value = 1 <=> swapped.value = 2
            /\ verdict.value = 0 <=> swapped.value = 0
            /\ same.value = 0

\* Two different hands of one category, the first winning on the tie-break.
C3_Witness ==
    /\ verdict.outcome = "returned"
    /\ verdict.value = 1
    /\ Len(board) = 5
    /\ evaluate_hand(hole, board).rank = evaluate_hand(hole2, board).rank

\* C7: called with a community of 1 or 2 cards, or with fewer than 5 cards in
\* all, evaluate_hand and compare_hands end in InvalidHandSize and return no
\* result.
C7_RejectsHandSize ==
    (Len(board) \notin {0, 3, 4, 5} \/ Len(hole) + Len(board) < 5) =>
        /\ evaluated.outcome \in {"not called", "InvalidHandSize"}
        /\ verdict.outcome \in {"not called", "InvalidHandSize"}

(***************************************************************************)
(* Claims about the bot, under Spec.                                       *)
(***************************************************************************)
\* C5: make_decision returns true exactly when a trial completed and
\* 2 * wins >= trials; (5, 10) stays; with a time limit of 0 or less no trial
\* runs and the result is false, with no error.
C5_StayIffHalf ==
    /\ StayOrFold([num |-> 5, den |-> 10])
    /\ pc = "decided" =>
        /\ returned.outcome = "returned"
        /\ returned.value <=> (simulations > 0 /\ 2 * nodes[1].wins >= simulations)
        /\ time_limit <= 0 => (simulations = 0 /\ returned.value = FALSE)

\* A decision on a ratio of exactly one half stays.
C5_Witness ==
    /\ pc = "decided"
    /\ simulations > 0
    /\ 2 * nodes[1].wins = simulations
    /\ returned.value = TRUE

\* C6: estimate_win_probability with a trial count of 0 returns the ratio 0
\* and does not fail; for every count n it returns wins/n with 0 <= wins <= n.
C6_ZeroTrialsNoError ==
    pc = "estimated" =>
        /\ returned.outcome = "returned"
        /\ IF num_simulations = 0 THEN returned.value.num = 0
           ELSE /\ returned.value = [num |-> wins, den |-> num_simulations]
                /\ 0 <= wins /\ wins <= num_simulations

\* C9: within one make_decision call the root starts at (0, 0); each trial
\* adds 1 to its simulations and 1 to its wins exactly when compare_hands gave
\* 1; 0 <= wins <= simulations = trials completed; no counter decreases and
\* the root is the only node.
C9_RootStatistics ==
    [][ /\ (pc # "deciding" /\ pc' = "deciding") =>
              nodes' = <<[parent |-> None, wins |-> 0, simulations |-> 0]>>
        /\ (pc = "deciding" /\ pc' = "deciding") =>
              /\ nodes'[1].simulations = nodes[1].simulations + 1
              /\ nodes'[1].wins = nodes[1].wins + (IF trial'.result = 1 THEN 1 ELSE 0)
        /\ (pc = "deciding" /\ pc' = "decided") => nodes' = nodes
        /\ pc' = "deciding" =>
              /\ Len(nodes') = 1
              /\ nodes'[1].parent = None
              /\ 0 <= nodes'[1].wins /\ nodes'[1].wins <= nodes'[1].simulations
              /\ nodes'[1].simulations = simulations'
      ]_vars

\* Two trials or more of one decision, some won and some not.
C9_Witness ==
    /\ pc = "deciding"
    /\ simulations >= 2
    /\ nodes[1].wins >= 1
    /\ nodes[1].wins < simulations

Distinct(s) == Cardinality(Range(s)) = Len(s)

\* What C10 says of the trial just run.
TrialWellFormed ==
    LET known == my_hole_cards \o known_community
    IN  /\ Len(trial.deck) = 52 - Len(known)
        /\ Distinct(trial.deck)
        /\ Range(trial.deck) \cap Range(known) = {}
        /\ Range(trial.opponent_hole_cards) \subseteq Range(trial.deck)
        /\ Len(trial.opponent_hole_cards) = 2
        /\ Len(trial.future_community) = 5
        /\ SubSeq(trial.future_community, 1, Len(known_community)) = known_community
        /\ Range(SubSeq(trial.future_community, Len(known_community) + 1, 5))
              \subseteq Range(trial.deck)
        /\ Distinct(my_hole_cards \o trial.opponent_hole_cards \o trial.future_community)
        /\ Len(my_hole_cards \o trial.future_community) = 7
        /\ Len(trial.opponent_hole_cards \o trial.future_community) = 7

\* C10: in every trial the deck built holds the 52 cards but the known ones,
\* each once; the opponent's 2 cards and the missing community cards come
\* from it; the completed community has 5 cards and starts with the known
\* ones; the nine cards in play are distinct, both pools have 7 cards, and
\* the caller's community list is as it was.
C10_TrialDeck ==
    [][ (pc \in {"deciding", "estimating"} /\ pc' = pc) =>
            /\ TrialWellFormed'
            /\ known_community' = known_community
            /\ my_hole_cards' = my_hole_cards
      ]_vars

\* A trial run on a flop: two community cards were drawn.
C10_Witness ==
    /\ pc = "deciding"
    /\ trial # NoTrial
    /\ Len(known_community) = 3
    /\ Len(trial.remaining_deck) = 43

====
